---- MODULE Spec2Model ----
(***************************************************************************)
(* Tax loss harvesting tracker: the entry store of database.py and the     *)
(* new-entry form handler of app.py.                                        *)
(*                                                                          *)
(* Dates are day ordinals counted from 2024-01-01 (a Monday) while they are *)
(* datetime values, and <<year, month, day>> triples while they are the     *)
(* "%Y-%m-%d" strings the store keeps (the zero-padded text compares like   *)
(* the triple).  SQL NULL is the empty tuple.  Text is a sequence of        *)
(* one-character strings.  The bookkeeping columns created_at / updated_at  *)
(* are not part of the model.                                               *)
(***************************************************************************)
EXTENDS Integers, Sequences, FiniteSets, TLC

\* entries, attachments: the two tables, as functions from the ids of their
\*     rows to the rows
\* entries_seq, attachments_seq: the AUTOINCREMENT counters of the tables
\* now:  the day datetime.now() falls on
\* last: the latest call: its operation, id and flag argument, the status the
\*     row had before it ("absent" for no row), and what it returned
\* hist: the statuses of entry last.id over the current run of consecutive
\*     cycle_status calls (empty after any other call)
VARIABLES entries, entries_seq, attachments, attachments_seq, now, last, hist,
          sess

vars == <<entries, entries_seq, attachments, attachments_seq, now, last, hist,
          sess>>

----------------------------------------------------------------------------
(* Bounds *)

\* number of rows the entries table ever receives (AUTOINCREMENT ids 1..MaxId)
MaxId == 2
\* how many days the clock advances
MaxTicks == 1
\* ordinals of the sell dates under the date-engine specification
MaxSellDay == 400

\* ordinal of the first "today" (2024-02-04)
FirstToday == 34

NULL == <<>>

Ids == 1..MaxId

----------------------------------------------------------------------------
(* Calendar: datetime.strptime / strftime / weekday / timedelta *)

EpochYear == 2024

IsLeap(y) == (y % 4 = 0 /\ y % 100 # 0) \/ y % 400 = 0

DaysInMonth(y, m) ==
    IF m = 2 THEN (IF IsLeap(y) THEN 29 ELSE 28)
    ELSE IF m \in {4, 6, 9, 11} THEN 30 ELSE 31

RECURSIVE FromOrdinal(_, _, _)
FromOrdinal(n, y, m) ==
    IF n >= DaysInMonth(y, m)
    THEN FromOrdinal(n - DaysInMonth(y, m),
                     IF m = 12 THEN y + 1 ELSE y,
                     IF m = 12 THEN 1 ELSE m + 1)
    ELSE <<y, m, n + 1>>

\* datetime -> "%Y-%m-%d"
strftime(n) == FromOrdinal(n, EpochYear, 1)

RECURSIVE DaysBefore(_, _)
DaysBefore(y, m) ==
    IF y = EpochYear /\ m = 1 THEN 0
    ELSE IF m = 1 THEN DaysBefore(y - 1, 12) + DaysInMonth(y - 1, 12)
    ELSE DaysBefore(y, m - 1) + DaysInMonth(y, m - 1)

\* "%Y-%m-%d" -> datetime
strptime(s) == DaysBefore(s[1], s[2]) + (s[3] - 1)

\* datetime.weekday(): Monday = 0 ... Sunday = 6
weekday(n) == n % 7

\* adjust_for_weekend without its Sunday branch
adjust_for_weekend_no_sunday(dt) ==
    IF weekday(dt) = 5 THEN dt + 2 ELSE dt

\* Saturday (5) moves to Monday, Sunday (6) moves to Monday
adjust_for_weekend(dt) ==
    IF weekday(dt) = 5 THEN dt + 2
    ELSE IF weekday(dt) = 6 THEN dt + 1
    ELSE dt

\* the target-date computation shared by add_entry and update_entry
computeTargetDate(sell_date) ==
    strftime(adjust_for_weekend(strptime(sell_date) + 31))

----------------------------------------------------------------------------
(* Text: str.strip, str.upper, truthiness *)

upperChar(c) ==
    CASE c = "x" -> "X"
      [] c = "c" -> "C"
      [] c = "a" -> "A"
      [] c = "b" -> "B"
      [] OTHER   -> c

upper(s) == [i \in DOMAIN s |-> upperChar(s[i])]

RECURSIVE lstrip(_)
lstrip(s) == IF s # <<>> /\ Head(s) = " " THEN lstrip(Tail(s)) ELSE s

RECURSIVE rstrip(_)
rstrip(s) ==
    IF s # <<>> /\ s[Len(s)] = " " THEN rstrip(SubSeq(s, 1, Len(s) - 1)) ELSE s

strip(s) == rstrip(lstrip(s))

----------------------------------------------------------------------------
(* base64.b64encode / b64decode over byte sequences; sextet 64 is the pad *)

PAD == 64

RECURSIVE b64encode(_)
b64encode(bs) ==
    IF bs = <<>> THEN <<>>
    ELSE IF Len(bs) = 1
    THEN <<bs[1] \div 4, (bs[1] % 4) * 16, PAD, PAD>>
    ELSE IF Len(bs) = 2
    THEN <<bs[1] \div 4, (bs[1] % 4) * 16 + bs[2] \div 16, (bs[2] % 16) * 4, PAD>>
    ELSE <<bs[1] \div 4, (bs[1] % 4) * 16 + bs[2] \div 16,
           (bs[2] % 16) * 4 + bs[3] \div 64, bs[3] % 64>>
         \o b64encode(SubSeq(bs, 4, Len(bs)))

RECURSIVE b64decode(_)
b64decode(t) ==
    IF t = <<>> THEN <<>>
    ELSE LET b1 == t[1] * 4 + t[2] \div 16
             b2 == (t[2] % 16) * 16 + (IF t[3] = PAD THEN 0 ELSE t[3] \div 4)
             b3 == ((IF t[3] = PAD THEN 0 ELSE t[3]) % 4) * 64
                   + (IF t[4] = PAD THEN 0 ELSE t[4])
             grp == IF t[3] = PAD THEN <<b1>>
                    ELSE IF t[4] = PAD THEN <<b1, b2>>
                    ELSE <<b1, b2, b3>>
         IN  grp \o b64decode(SubSeq(t, 5, Len(t)))

----------------------------------------------------------------------------
(* Inputs *)

AccountInputs == {<<>>, <<" ">>, <<" ", "a">>}
TickerInputs  == {<<>>, <<"x">>}
HeldInInputs  == {<<>>, <<"c">>}
CommentInputs == {<<>>}

\* BROKER_OPTIONS of the form, cut down to the empty option and one broker
BrokerInputs == {"", "UBS"}

\* sell dates whose +31 day is a Friday and a Saturday
SellDays == {1, 2}
SellDates == {strftime(n) : n \in SellDays}

\* the texts a caller that fills every required field passes to the store
Filled(S) == {strip(s) : s \in S} \ {<<>>}

NoFile == [name |-> <<>>, type |-> "", size |-> 0, data |-> <<>>]

\* the form of the entry store specification carries no upload
Uploads == {NoFile}

\* 5 * 1024 * 1024
MaxUploadBytes == 5242880

Statuses == {"pending", "in_progress", "completed"}

----------------------------------------------------------------------------
(* State *)

\* the browser sessions whose calls can overlap
Sessions == {1, 2}

\* a session that has made no call: pc is where its call stands ("idle",
\* "selected" after cycle_status's SELECT, "written" after the UPDATE and
\* before the commit), cur the status its SELECT read, pre the status of the
\* row when the call began, tx the entries table as its open transaction has
\* it, calls the number of calls it has begun; file is the upload of the form
\* it submitted, att the id add_attachment returned to it, waited the number
\* of times its busy handler has slept, counts the results of the queries of
\* get_stats it has run
NoSession == [pc |-> "idle", op |-> "none", id |-> 0, arg |-> FALSE,
              pre |-> "absent", cur |-> "pending", ret |-> "None",
              tx |-> <<>>, calls |-> 0,
              file |-> NoFile, att |-> 0, waited |-> 0, counts |-> <<>>]

NoCall == [op |-> "none", id |-> 0, arg |-> FALSE, pre |-> "absent", ret |-> "None"]

Init ==
    /\ entries = <<>>
    /\ entries_seq = 0
    /\ attachments = <<>>
    /\ attachments_seq = 0
    /\ now = FirstToday
    /\ last = NoCall
    /\ hist = <<>>
    /\ sess = [s \in Sessions |-> NoSession]

\* status of the row before a call, "absent" when the row does not exist
PreOf(entry_id) ==
    IF entry_id \in DOMAIN entries THEN entries[entry_id].status ELSE "absent"

\* the function f with the row k set to v (k may be new)
Put(f, k, v) == [x \in DOMAIN f \cup {k} |-> IF x = k THEN v ELSE f[x]]

\* the function f without the row k
Drop(f, k) == [x \in DOMAIN f \ {k} |-> f[x]]

\* hist: the status of entry last.id before the first call and after each
\* call of the current run of consecutive cycle_status calls on it, the
\* latest 4 of them
Slide(h, s) == IF Len(h) < 4 THEN Append(h, s) ELSE Append(Tail(h), s)

----------------------------------------------------------------------------
(* database.py *)

\* NewRow with the completed flag set
NewRowCompleted(account, tickers, held_in, sell_date, broker, comments) ==
    [account |-> account, tickers |-> upper(tickers), held_in |-> upper(held_in),
     broker |-> broker, sell_date |-> sell_date,
     target_date |-> computeTargetDate(sell_date), comments |-> comments,
     completed |-> 1, completed_date |-> NULL, status |-> "pending"]

\* the row INSERT of add_entry builds; completed, completed_date and status
\* take the column defaults 0, NULL and 'pending'
NewRow(account, tickers, held_in, sell_date, broker, comments) ==
    [account |-> account, tickers |-> upper(tickers), held_in |-> upper(held_in),
     broker |-> broker, sell_date |-> sell_date,
     target_date |-> computeTargetDate(sell_date), comments |-> comments,
     completed |-> 0, completed_date |-> NULL, status |-> "pending"]

\* the rowid of a table without AUTOINCREMENT: one more than the largest
\* rowid in the table
NewIdAfterLargest ==
    IF DOMAIN entries = {} THEN 1
    ELSE (CHOOSE m \in DOMAIN entries : \A k \in DOMAIN entries : k <= m) + 1

\* cursor.lastrowid of the INSERT: id INTEGER PRIMARY KEY AUTOINCREMENT takes
\* one more than the largest id the table ever held (sqlite_sequence)
NewId == entries_seq + 1

add_entry(account, tickers, held_in, sell_date, broker, comments) ==
    LET id == NewId IN
    /\ entries_seq < MaxId
    /\ entries' = Put(entries, id,
                      NewRow(account, tickers, held_in, sell_date, broker, comments))
    /\ entries_seq' = id
    /\ hist' = <<>>
    /\ last' = [op |-> "create", id |-> id, arg |-> FALSE, pre |-> "absent",
                ret |-> "None"]

add_attachment(entry_id, filename, file_type, file_data) ==
    LET id == attachments_seq + 1 IN
    /\ attachments' = Put(attachments, id,
                          [entry_id |-> entry_id, filename |-> filename,
                           file_type |-> file_type,
                           file_data |-> b64encode(file_data)])
    /\ attachments_seq' = id

\* MarkedRow that leaves completed_date alone when it reopens the entry
MarkedRowKeepDate(row, completed) ==
    [row EXCEPT !.completed = IF completed THEN 1 ELSE 0,
                !.completed_date = IF completed THEN strftime(now)
                                   ELSE row.completed_date,
                !.status = IF completed THEN "completed" ELSE "pending"]

\* MarkedRow that leaves the completed flag as it was
MarkedRowNoFlag(row, completed) ==
    [row EXCEPT !.completed_date = IF completed THEN strftime(now) ELSE NULL,
                !.status = IF completed THEN "completed" ELSE "pending"]

\* the columns UPDATE of mark_completed sets on a row
MarkedRow(row, completed) ==
    [row EXCEPT !.completed = IF completed THEN 1 ELSE 0,
                !.completed_date = IF completed THEN strftime(now) ELSE NULL,
                !.status = IF completed THEN "completed" ELSE "pending"]

mark_completed(entry_id, completed) ==
    /\ entries' = IF entry_id \in DOMAIN entries
                  THEN [entries EXCEPT ![entry_id] = MarkedRow(@, completed)]
                  ELSE entries
    /\ hist' = <<>>
    /\ last' = [op |-> "setCompleted", id |-> entry_id, arg |-> completed,
                pre |-> PreOf(entry_id), ret |-> "None"]
    /\ UNCHANGED <<entries_seq, attachments, attachments_seq, now, sess>>

\* current_status of cycle_status and the result of get_entry_status:
\* row['status'] if row and row['status'] else 'pending'
StatusOrPending(entry_id) ==
    IF entry_id \in DOMAIN entries /\ entries[entry_id].status # ""
    THEN entries[entry_id].status
    ELSE "pending"

\* get_entry_status: row['status'] if row and row['status'] else 'pending'
get_entry_status(entry_id) == StatusOrPending(entry_id)

\* NextStatus without the way back from completed
NextStatusStuck(current_status) ==
    IF current_status = "pending" THEN "in_progress"
    ELSE "completed"

\* the if / elif / else ladder of cycle_status
NextStatus(current_status) ==
    IF current_status = "pending" THEN "in_progress"
    ELSE IF current_status = "in_progress" THEN "completed"
    ELSE "pending"

\* CycledRow that forgets the completed flag
CycledRowNoFlag(row, new_status) ==
    [row EXCEPT !.status = new_status,
                !.completed_date = IF new_status = "completed"
                                   THEN strftime(now) ELSE NULL]

\* the columns UPDATE of cycle_status sets on a row
CycledRow(row, new_status) ==
    [row EXCEPT !.status = new_status,
                !.completed = IF new_status = "completed" THEN 1 ELSE 0,
                !.completed_date = IF new_status = "completed"
                                   THEN strftime(now) ELSE NULL]

cycle_status(entry_id) ==
    LET new_status == NextStatus(StatusOrPending(entry_id)) IN
    /\ entries' = IF entry_id \in DOMAIN entries
                  THEN [entries EXCEPT ![entry_id] = CycledRow(@, new_status)]
                  ELSE entries
    /\ hist' = IF last.op = "cycleStatus" /\ last.id = entry_id
               THEN Slide(hist, new_status)
               ELSE <<StatusOrPending(entry_id), new_status>>
    /\ last' = [op |-> "cycleStatus", id |-> entry_id, arg |-> FALSE,
                pre |-> PreOf(entry_id), ret |-> new_status]
    /\ UNCHANGED <<entries_seq, attachments, attachments_seq, now, sess>>

\* UpdatedRow that keeps the old target_date
UpdatedRowStaleTarget(row, account, tickers, held_in, sell_date, broker, comments) ==
    [row EXCEPT !.account = account, !.tickers = upper(tickers),
                !.held_in = upper(held_in), !.broker = broker,
                !.sell_date = sell_date, !.comments = comments]

\* UpdatedRow that also resets the workflow columns
UpdatedRowReopens(row, account, tickers, held_in, sell_date, broker, comments) ==
    [row EXCEPT !.account = account, !.tickers = upper(tickers),
                !.held_in = upper(held_in), !.broker = broker,
                !.sell_date = sell_date,
                !.target_date = computeTargetDate(sell_date),
                !.comments = comments,
                !.completed = 0, !.completed_date = NULL, !.status = "pending"]

\* the columns UPDATE of update_entry sets on a row
UpdatedRow(row, account, tickers, held_in, sell_date, broker, comments) ==
    [row EXCEPT !.account = account, !.tickers = upper(tickers),
                !.held_in = upper(held_in), !.broker = broker,
                !.sell_date = sell_date,
                !.target_date = computeTargetDate(sell_date),
                !.comments = comments]

update_entry(entry_id, account, tickers, held_in, sell_date, broker, comments) ==
    /\ entries' = IF entry_id \in DOMAIN entries
                  THEN [entries EXCEPT ![entry_id] =
                          UpdatedRow(@, account, tickers, held_in, sell_date,
                                     broker, comments)]
                  ELSE entries
    /\ last' = [op |-> "update", id |-> entry_id, arg |-> FALSE,
                pre |-> PreOf(entry_id), ret |-> "None"]
    /\ hist' = <<>>
    /\ UNCHANGED <<entries_seq, attachments, attachments_seq, now, sess>>

\* delete_entry on a connection with foreign keys switched on: ON DELETE
\* CASCADE takes the entry's attachments with it
delete_entry_cascade(entry_id) ==
    /\ entries' = Drop(entries, entry_id)
    /\ attachments' = [a \in {x \in DOMAIN attachments :
                                attachments[x].entry_id # entry_id}
                          |-> attachments[a]]
    /\ hist' = <<>>
    /\ last' = [op |-> "delete", id |-> entry_id, arg |-> FALSE,
                pre |-> PreOf(entry_id), ret |-> "None"]
    /\ UNCHANGED <<entries_seq, attachments_seq, now, sess>>

delete_entry(entry_id) ==
    /\ entries' = Drop(entries, entry_id)
    /\ hist' = <<>>
    /\ last' = [op |-> "delete", id |-> entry_id, arg |-> FALSE,
                pre |-> PreOf(entry_id), ret |-> "None"]
    /\ UNCHANGED <<entries_seq, attachments, attachments_seq, now, sess>>

\* the metadata rows get_attachments selects for an entry (the ORDER BY on
\* uploaded_at is left out: the rows are handed back as a set)
get_attachments(entry_id) ==
    {[id |-> a, entry_id |-> attachments[a].entry_id,
      filename |-> attachments[a].filename,
      file_type |-> attachments[a].file_type] :
        a \in {x \in DOMAIN attachments : attachments[x].entry_id = entry_id}}

\* DELETE FROM attachments WHERE id = ?, with the entry's id for the key
delete_attachments_by_id(entry_id) ==
    /\ attachments' = Drop(attachments, entry_id)
    /\ UNCHANGED attachments_seq

\* DELETE FROM attachments WHERE entry_id = ?
delete_attachments_for_entry(entry_id) ==
    /\ attachments' = [a \in {x \in DOMAIN attachments :
                                attachments[x].entry_id # entry_id}
                          |-> attachments[a]]
    /\ UNCHANGED attachments_seq

\* DELETE FROM attachments WHERE id = ?
delete_attachment(attachment_id) ==
    /\ attachments' = Drop(attachments, attachment_id)
    /\ UNCHANGED attachments_seq

\* get_attachment_data that hands back the stored text undecoded
get_attachment_data_raw(attachment_id) ==
    IF attachment_id \in DOMAIN attachments
    THEN <<attachments[attachment_id].filename,
           attachments[attachment_id].file_type,
           attachments[attachment_id].file_data>>
    ELSE <<NULL, NULL, NULL>>

\* (filename, file_type, base64.b64decode(file_data)), or (None, None, None)
\* when no row has the id
get_attachment_data(attachment_id) ==
    IF attachment_id \in DOMAIN attachments
    THEN <<attachments[attachment_id].filename,
           attachments[attachment_id].file_type,
           b64decode(attachments[attachment_id].file_data)>>
    ELSE <<NULL, NULL, NULL>>

----------------------------------------------------------------------------
(* database.py: the queries *)

\* SQLite's comparison of two "%Y-%m-%d" texts: the first differing
\* component decides
DateLess(a, b) ==
    \/ a[1] < b[1]
    \/ a[1] = b[1] /\ a[2] < b[2]
    \/ a[1] = b[1] /\ a[2] = b[2] /\ a[3] < b[3]

DateLessEq(a, b) == a = b \/ DateLess(a, b)

\* Matches whose 'ready' branch leaves out the entries due today
MatchesStrictReady(status, row, today) ==
    IF status = "completed" THEN row.status = "completed"
    ELSE IF status = "waiting"
    THEN row.status # "completed" /\ DateLess(today, row.target_date)
    ELSE IF status = "ready"
    THEN row.status # "completed" /\ DateLess(row.target_date, today)
    ELSE IF status = "pending" THEN row.status = "pending"
    ELSE IF status = "in_progress" THEN row.status = "in_progress"
    ELSE TRUE

\* the WHERE clause of each branch of get_entries_by_status
Matches(status, row, today) ==
    IF status = "completed" THEN row.status = "completed"
    ELSE IF status = "waiting"
    THEN row.status # "completed" /\ DateLess(today, row.target_date)
    ELSE IF status = "ready"
    THEN row.status # "completed" /\ DateLessEq(row.target_date, today)
    ELSE IF status = "pending" THEN row.status = "pending"
    ELSE IF status = "in_progress" THEN row.status = "in_progress"
    ELSE TRUE

\* the ids of the rows a branch of get_entries_by_status selects
Selected(status) ==
    {id \in DOMAIN entries : Matches(status, entries[id], strftime(now))}

\* the code point of a character, for the characters the inputs use
ord(c) ==
    CASE c = " " -> 32
      [] c = "A" -> 65 [] c = "B" -> 66 [] c = "C" -> 67 [] c = "X" -> 88
      [] c = "a" -> 97 [] c = "b" -> 98 [] c = "c" -> 99 [] c = "x" -> 120

\* SQLite's BINARY collation of two texts (memcmp, the shorter first on a tie)
RECURSIVE TextLess(_, _)
TextLess(s, t) ==
    IF t = <<>> THEN FALSE
    ELSE IF s = <<>> THEN TRUE
    ELSE IF ord(Head(s)) # ord(Head(t)) THEN ord(Head(s)) < ord(Head(t))
    ELSE TextLess(Tail(s), Tail(t))

\* every order in which a query without ORDER BY could hand back the rows S
Perms(S) ==
    {q \in [1..Cardinality(S) -> S] : \A i, j \in DOMAIN q : q[i] = q[j] => i = j}

\* the orders of the rows S that satisfy an ORDER BY whose sort key puts row a
\* strictly before row b for the pairs <<a, b>> of Before; rows with equal
\* keys come in any order
OrderBy(S, Before) ==
    {q \in Perms(S) : \A i, j \in DOMAIN q : i < j => <<q[j], q[i]>> \notin Before}

\* the ids of the rows get_entries_by_status can return, in each order its
\* ORDER BY allows
get_entries_by_status(status) ==
    LET S == Selected(status)
        ByTargetAsc ==
            {p \in S \X S :
                DateLess(entries[p[1]].target_date, entries[p[2]].target_date)}
        ByCompletedDesc ==
            {p \in S \X S :
                LET x == entries[p[1]].completed_date
                    y == entries[p[2]].completed_date
                IN  IF x = NULL \/ y = NULL THEN x # NULL /\ y = NULL
                    ELSE DateLess(y, x)}
    IN  IF status = "completed"
        THEN OrderBy(S, ByCompletedDesc)
        ELSE OrderBy(S, ByTargetAsc)

\* the ids of the rows get_all_entries can return: ORDER BY target_date ASC,
\* account ASC
get_all_entries ==
    LET S == DOMAIN entries
        ByTargetAccount ==
            {p \in S \X S :
                \/ DateLess(entries[p[1]].target_date, entries[p[2]].target_date)
                \/ /\ entries[p[1]].target_date = entries[p[2]].target_date
                   /\ TextLess(entries[p[1]].account, entries[p[2]].account)}
    IN  OrderBy(S, ByTargetAccount)

\* get_all_account_counts grouped by the account as typed
get_all_account_counts_as_typed ==
    LET keys == {entries[id].account : id \in DOMAIN entries}
    IN  [k \in keys |->
            Cardinality({id \in DOMAIN entries : entries[id].account = k})]

\* SELECT UPPER(account), COUNT(*) ... GROUP BY UPPER(account), as the dict
\* get_all_account_counts builds from the rows
get_all_account_counts ==
    LET keys == {upper(entries[id].account) : id \in DOMAIN entries}
    IN  [k \in keys |->
            Cardinality({id \in DOMAIN entries : upper(entries[id].account) = k})]

\* the counts of get_stats, with waiting and ready taken regardless of the flag
get_stats_no_flag ==
    LET today_str == strftime(now)
        week_end  == strftime(now + 7)
        ids       == DOMAIN entries
        waiting   == {id \in ids : LET r == entries[id] IN
                         DateLess(today_str, r.target_date)}
        ready     == {id \in ids : LET r == entries[id] IN
                         DateLessEq(r.target_date, today_str)}
        due_today == {id \in ids : LET r == entries[id] IN
                         r.completed = 0 /\ r.target_date = today_str}
        due_week  == {id \in ids : LET r == entries[id] IN
                         /\ r.completed = 0
                         /\ DateLessEq(today_str, r.target_date)
                         /\ DateLessEq(r.target_date, week_end)}
        completed == {id \in ids : entries[id].completed = 1}
    IN  [waiting |-> Cardinality(waiting), ready |-> Cardinality(ready),
         due_today |-> Cardinality(due_today),
         due_week |-> Cardinality(due_week),
         completed |-> Cardinality(completed), total |-> Cardinality(ids)]

\* the six COUNT(*) queries of get_stats
get_stats ==
    LET today_str == strftime(now)
        week_end  == strftime(now + 7)
        ids       == DOMAIN entries
        waiting   == {id \in ids : LET r == entries[id] IN
                         r.completed = 0 /\ DateLess(today_str, r.target_date)}
        ready     == {id \in ids : LET r == entries[id] IN
                         r.completed = 0 /\ DateLessEq(r.target_date, today_str)}
        due_today == {id \in ids : LET r == entries[id] IN
                         r.completed = 0 /\ r.target_date = today_str}
        due_week  == {id \in ids : LET r == entries[id] IN
                         /\ r.completed = 0
                         /\ DateLessEq(today_str, r.target_date)
                         /\ DateLessEq(r.target_date, week_end)}
        completed == {id \in ids : entries[id].completed = 1}
    IN  [waiting |-> Cardinality(waiting), ready |-> Cardinality(ready),
         due_today |-> Cardinality(due_today),
         due_week |-> Cardinality(due_week),
         completed |-> Cardinality(completed), total |-> Cardinality(ids)]

----------------------------------------------------------------------------
(* app.py *)

\* (target - today).days
calculate_days_remaining(target_date) == strptime(target_date) - now

\* get_status_display that takes the day itself for not yet due
get_status_display_late(days_remaining, completed) ==
    IF completed THEN "COMPLETED"
    ELSE IF days_remaining < 0 THEN "READY"
    ELSE "WAITING"

get_status_display(days_remaining, completed) ==
    IF completed THEN "COMPLETED"
    ELSE IF days_remaining <= 0 THEN "READY"
    ELSE "WAITING"

\* the status column of the active table: get_status_display(days,
\* bool(entry["completed"]))
DisplayStatus(entry_id) ==
    get_status_display(calculate_days_remaining(entries[entry_id].target_date),
                       entries[entry_id].completed # 0)

\* "if not account or not tickers or not held_in or not broker", on the
\* fields as typed
RequiredMissing(account, tickers, held_in, broker) ==
    account = <<>> \/ tickers = <<>> \/ held_in = <<>> \/ broker = ""

\* the "if submitted:" branch of the new-entry form
SubmitNewEntry(account, tickers, held_in, sell_date, broker, comments, uploaded_file) ==
    IF RequiredMissing(account, tickers, held_in, broker)
    THEN /\ last' = [op |-> "create", id |-> 0, arg |-> FALSE, pre |-> "absent",
                     ret |-> "Rejected"]
         /\ hist' = <<>>
         /\ UNCHANGED <<entries, entries_seq, attachments, attachments_seq, now, sess>>
    ELSE /\ add_entry(strip(account), strip(tickers), strip(held_in), sell_date,
                      broker, strip(comments))
         /\ IF uploaded_file # NoFile /\ uploaded_file.size <= MaxUploadBytes
            THEN add_attachment(entries_seq', uploaded_file.name,
                                IF uploaded_file.type = ""
                                THEN "application/octet-stream"
                                ELSE uploaded_file.type,
                                uploaded_file.data)
            ELSE UNCHANGED <<attachments, attachments_seq>>
         /\ UNCHANGED <<now, sess>>

\* datetime.now() moves on to the next day
Tick ==
    /\ now < FirstToday + MaxTicks
    /\ now' = now + 1
    /\ UNCHANGED <<entries, entries_seq, attachments, attachments_seq, last, hist,
                   sess>>

----------------------------------------------------------------------------
(* The entry store under one session *)

\* the forms submitted: every required field filled in, or one of them left
\* out; the sell date, comment and upload of a rejected form are never read
FormInputs ==
    {f \in AccountInputs \X TickerInputs \X HeldInInputs \X BrokerInputs :
        Cardinality({i \in 1..3 : f[i] = <<>>}) + (IF f[4] = "" THEN 1 ELSE 0) <= 1}

Create ==
    \E f \in FormInputs :
        \E sell_date \in IF RequiredMissing(f[1], f[2], f[3], f[4])
                          THEN {strftime(FirstToday)} ELSE SellDates,
           comments \in CommentInputs, uploaded_file \in Uploads :
            SubmitNewEntry(f[1], f[2], f[3], sell_date, f[4], comments,
                           uploaded_file)

Update ==
    \E entry_id \in Ids, account \in Filled(AccountInputs),
       tickers \in Filled(TickerInputs), held_in \in Filled(HeldInInputs),
       sell_date \in SellDates, broker \in BrokerInputs \ {""},
       comments \in CommentInputs :
        update_entry(entry_id, account, tickers, held_in, sell_date, broker, comments)

SetCompleted == \E entry_id \in Ids, completed \in BOOLEAN : mark_completed(entry_id, completed)

CycleStatus == \E entry_id \in Ids : cycle_status(entry_id)

Delete == \E entry_id \in Ids : delete_entry(entry_id)

Next == Create \/ Update \/ SetCompleted \/ CycleStatus \/ Delete \/ Tick

Spec == Init /\ [][Next]_vars

----------------------------------------------------------------------------
(* The date engine: one entry, created and re-dated over a long run of sell *)
(* dates (all of 2024 with its leap day, and the turn of the year)          *)

DatedCreate ==
    /\ entries_seq = 0
    /\ \E n \in 0..MaxSellDay :
         add_entry(<<"a">>, <<"x">>, <<"c">>, strftime(n), "UBS", <<>>)
    /\ UNCHANGED <<attachments, attachments_seq, now, sess>>

DatedUpdate ==
    \E n \in 0..MaxSellDay :
        update_entry(1, <<"a">>, <<"x">>, <<"c">>, strftime(n), "UBS", <<>>)

NextDate == DatedCreate \/ DatedUpdate

SpecDate == Init /\ [][NextDate]_vars

----------------------------------------------------------------------------
(* the lists: entries of two accounts that can fall due on the same day *)

ListAccounts == {<<"a">>, <<"b">>}

ListCreate ==
    \E account \in ListAccounts, sell_date \in SellDates :
        SubmitNewEntry(account, <<"x">>, <<"c">>, sell_date, "UBS", <<>>, NoFile)

NextList == ListCreate \/ SetCompleted \/ CycleStatus \/ Delete \/ Tick

SpecList == Init /\ [][NextList]_vars

----------------------------------------------------------------------------
(* the attachments: uploads with the form, the store's own add_attachment,  *)
(* and the three delete buttons of the page                                 *)

MaxAtt == 3

SmallFile == [name |-> <<"f">>, type |-> "", size |-> 2, data |-> <<0, 255>>]

AttUploads == {NoFile, SmallFile}

\* the form, filled in, with or without a file
AttCreate ==
    \E uploaded_file \in AttUploads :
        /\ uploaded_file = NoFile \/ attachments_seq < MaxAtt
        /\ SubmitNewEntry(<<"a">>, <<"x">>, <<"c">>, <<2024, 1, 2>>, "UBS", <<>>,
                          uploaded_file)

\* add_attachment called with any id, stored or not
AddAttachment ==
    /\ attachments_seq < MaxAtt
    /\ \E entry_id \in Ids :
         /\ add_attachment(entry_id, SmallFile.name, "application/octet-stream",
                           SmallFile.data)
         /\ last' = [op |-> "attach", id |-> entry_id, arg |-> FALSE,
                     pre |-> PreOf(entry_id), ret |-> "None"]
    /\ hist' = <<>>
    /\ UNCHANGED <<entries, entries_seq, now, sess>>

\* a mutating call whose statement raises: get_connection rolls back and
\* re-raises, and nothing the call did is kept
CallFails ==
    /\ \E op \in {"create", "update", "setCompleted", "cycleStatus", "delete",
                  "attach"}, entry_id \in Ids :
         last' = [op |-> op, id |-> entry_id, arg |-> FALSE,
                  pre |-> PreOf(entry_id), ret |-> "Error"]
    /\ hist' = <<>>
    /\ UNCHANGED <<entries, entries_seq, attachments, attachments_seq, now, sess>>

\* the delete button of the ready list and of the active table:
\* delete_attachments_for_entry, then delete_entry
DeleteWithAttachments(entry_id, op) ==
    /\ delete_attachments_for_entry(entry_id)
    /\ entries' = Drop(entries, entry_id)
    /\ last' = [op |-> op, id |-> entry_id, arg |-> FALSE,
                pre |-> PreOf(entry_id), ret |-> "None"]
    /\ hist' = <<>>
    /\ UNCHANGED <<entries_seq, now, sess>>

DeleteFromReady ==
    \E entry_id \in Selected("ready") :
        DeleteWithAttachments(entry_id, "deleteReady")

DeleteFromTable ==
    \E entry_id \in {id \in DOMAIN entries : entries[id].completed = 0} :
        DeleteWithAttachments(entry_id, "deleteActive")

\* the delete button of the completed list: delete_entry alone
DeleteFromCompleted ==
    \E entry_id \in Selected("completed") :
        /\ entries' = Drop(entries, entry_id)
        /\ last' = [op |-> "deleteCompleted", id |-> entry_id, arg |-> FALSE,
                    pre |-> PreOf(entry_id), ret |-> "None"]
        /\ hist' = <<>>
        /\ UNCHANGED <<entries_seq, attachments, attachments_seq, now, sess>>

NextAtt ==
    \/ AttCreate \/ AddAttachment \/ CallFails \/ SetCompleted
    \/ DeleteFromReady \/ DeleteFromTable \/ DeleteFromCompleted

SpecAtt == Init /\ [][NextAtt]_vars

----------------------------------------------------------------------------
(* sessions whose calls overlap: each call runs on a connection of its own;  *)
(* sqlite3 opens the transaction before the UPDATE, not before a SELECT, a   *)
(* transaction that has written holds the database's one write lock until   *)
(* its commit, and readers see committed rows only (WAL)                     *)

MaxCalls == 2

\* no other session's transaction holds the write lock
LockFree(s) == \A t \in Sessions \ {s} : sess[t].pc # "written"

\* Written for a cycle_status that sets the status column alone
WrittenStatusOnly(table, op, entry_id, arg, cur) ==
    IF entry_id \notin DOMAIN table THEN table
    ELSE IF op = "cycleStatus"
    THEN [table EXCEPT ![entry_id] = [@ EXCEPT !.status = NextStatus(cur)]]
    ELSE IF op = "setCompleted"
    THEN [table EXCEPT ![entry_id] = MarkedRow(@, arg)]
    ELSE [table EXCEPT ![entry_id] =
             UpdatedRow(@, <<"b">>, <<"x">>, <<"c">>, <<2024, 1, 3>>, "UBS", <<>>)]

\* the entries table after the single UPDATE statement of a call: of
\* cycle_status with the status its SELECT read, of mark_completed, or of
\* update_entry
Written(table, op, entry_id, arg, cur) ==
    IF entry_id \notin DOMAIN table THEN table
    ELSE IF op = "cycleStatus"
    THEN [table EXCEPT ![entry_id] = CycledRow(@, NextStatus(cur))]
    ELSE IF op = "setCompleted"
    THEN [table EXCEPT ![entry_id] = MarkedRow(@, arg)]
    ELSE [table EXCEPT ![entry_id] =
             UpdatedRow(@, <<"b">>, <<"x">>, <<"c">>, <<2024, 1, 3>>, "UBS", <<>>)]

\* the one entry the sessions work on
ConcCreate ==
    /\ entries_seq = 0
    /\ SubmitNewEntry(<<"a">>, <<"x">>, <<"c">>, <<2024, 1, 2>>, "UBS", <<>>, NoFile)

\* cycle_status, the SELECT: autocommit, no lock wanted from other writers
CycSelect ==
    \E s \in Sessions, entry_id \in Ids :
        /\ sess[s].pc = "idle" /\ sess[s].calls < MaxCalls
        /\ sess' = [sess EXCEPT ![s] =
                      [NoSession EXCEPT
                         !.pc = "selected", !.op = "cycleStatus",
                         !.id = entry_id, !.pre = PreOf(entry_id),
                         !.cur = StatusOrPending(entry_id),
                         !.calls = sess[s].calls + 1]]
        /\ UNCHANGED <<entries, entries_seq, attachments, attachments_seq, now,
                       last, hist>>

\* cycle_status, the UPDATE: the transaction begins and takes the write lock
CycUpdate ==
    \E s \in Sessions :
        /\ sess[s].pc = "selected" /\ LockFree(s)
        /\ sess' = [sess EXCEPT ![s].pc = "written",
                                ![s].tx = Written(entries, "cycleStatus",
                                                  sess[s].id, FALSE, sess[s].cur)]
        /\ UNCHANGED <<entries, entries_seq, attachments, attachments_seq, now,
                       last, hist>>

\* mark_completed or update_entry, the UPDATE
WriteUpdate ==
    \E s \in Sessions, entry_id \in Ids, op \in {"setCompleted", "update"},
       arg \in BOOLEAN :
        /\ sess[s].pc = "idle" /\ sess[s].calls < MaxCalls /\ LockFree(s)
        /\ op = "update" => ~arg
        /\ sess' = [sess EXCEPT ![s] =
                      [NoSession EXCEPT
                         !.pc = "written", !.op = op, !.id = entry_id,
                         !.arg = arg, !.pre = PreOf(entry_id),
                         !.tx = Written(entries, op, entry_id, arg, "pending"),
                         !.calls = sess[s].calls + 1]]
        /\ UNCHANGED <<entries, entries_seq, attachments, attachments_seq, now,
                       last, hist>>

\* conn.commit() at the end of the with block, and the return of the call
Commit ==
    \E s \in Sessions :
        /\ sess[s].pc = "written"
        /\ entries' = sess[s].tx
        /\ sess' = [sess EXCEPT ![s].pc = "idle", ![s].tx = <<>>,
                                ![s].ret = IF sess[s].op = "cycleStatus"
                                           THEN NextStatus(sess[s].cur)
                                           ELSE "None"]
        /\ UNCHANGED <<entries_seq, attachments, attachments_seq, now, last, hist>>

\* the UPDATE of cycle_status finds the write lock held for the whole
\* timeout: "database is locked", rollback, nothing written
CycBusy ==
    \E s \in Sessions :
        /\ sess[s].pc = "selected" /\ ~LockFree(s)
        /\ sess' = [sess EXCEPT ![s].pc = "idle", ![s].ret = "Busy"]
        /\ UNCHANGED <<entries, entries_seq, attachments, attachments_seq, now,
                       last, hist>>

NextConc ==
    ConcCreate \/ CycSelect \/ CycUpdate \/ WriteUpdate \/ Commit \/ CycBusy

SpecConc == Init /\ [][NextConc]_vars

----------------------------------------------------------------------------
(* the account badges: accounts that differ in letter case only *)

CaseAccounts == {<<"a">>, <<"A">>, <<"b">>}

AccCreate ==
    \E account \in CaseAccounts :
        SubmitNewEntry(account, <<"x">>, <<"c">>, <<2024, 1, 2>>, "UBS", <<>>,
                       NoFile)

NextAccounts == AccCreate \/ SetCompleted \/ Delete

SpecAccounts == Init /\ [][NextAccounts]_vars

----------------------------------------------------------------------------
(* the page's actions as the store calls they are made of: every store call *)
(* opens a connection of its own and commits before the next one begins     *)

\* uploads of exactly 5 MiB and of one byte more; size is len(file_data), of
\* which data keeps the first bytes
LimitFile == [name |-> <<"f">>, type |-> "application/pdf",
              size |-> MaxUploadBytes, data |-> <<255, 0>>]

BigFile == [name |-> <<"f">>, type |-> "application/pdf",
            size |-> MaxUploadBytes + 1, data |-> <<255, 0>>]

ActUploads == {NoFile, SmallFile, LimitFile, BigFile}

\* Accepted that turns away a file of exactly 5 MiB
AcceptedBelowLimit(uploaded_file) ==
    uploaded_file # NoFile /\ uploaded_file.size < MaxUploadBytes

\* "if uploaded_file is not None" and "if len(file_data) <= 5 * 1024 * 1024"
Accepted(uploaded_file) ==
    uploaded_file # NoFile /\ uploaded_file.size <= MaxUploadBytes

\* the form, first call: db.add_entry
SubmitEntry ==
    \E s \in Sessions, uploaded_file \in ActUploads :
        /\ sess[s].pc = "idle" /\ sess[s].calls < MaxCalls
        /\ add_entry(<<"a">>, <<"x">>, <<"c">>, <<2024, 1, 2>>, "UBS", <<>>)
        /\ sess' = [sess EXCEPT ![s] =
                      [NoSession EXCEPT
                         !.pc = IF Accepted(uploaded_file) THEN "attaching"
                                ELSE "idle",
                         !.op = "submit", !.id = NewId, !.file = uploaded_file,
                         !.calls = sess[s].calls + 1]]
        /\ UNCHANGED <<attachments, attachments_seq, now>>

\* the form, second call: db.add_attachment with the id add_entry returned
SubmitAttachment ==
    \E s \in Sessions :
        /\ sess[s].pc = "attaching"
        /\ add_attachment(sess[s].id, sess[s].file.name,
                          IF sess[s].file.type = ""
                          THEN "application/octet-stream"
                          ELSE sess[s].file.type,
                          sess[s].file.data)
        /\ sess' = [sess EXCEPT ![s].pc = "idle", ![s].att = attachments_seq']
        /\ UNCHANGED <<entries, entries_seq, now, last, hist>>

\* db.add_attachment raises: its transaction is rolled back, the handler ends
SubmitAttachmentFails ==
    \E s \in Sessions :
        /\ sess[s].pc = "attaching"
        /\ sess' = [sess EXCEPT ![s].pc = "idle", ![s].ret = "Error"]
        /\ UNCHANGED <<entries, entries_seq, attachments, attachments_seq, now,
                       last, hist>>

\* the delete button of the active table, first call:
\* db.delete_attachments_for_entry
DeleteAttachmentsFirst ==
    \E s \in Sessions :
        \E entry_id \in {id \in DOMAIN entries : entries[id].completed = 0} :
            /\ sess[s].pc = "idle" /\ sess[s].calls < MaxCalls
            /\ delete_attachments_for_entry(entry_id)
            /\ sess' = [sess EXCEPT ![s] =
                          [NoSession EXCEPT
                             !.pc = "deleting", !.op = "delete",
                             !.id = entry_id, !.pre = PreOf(entry_id),
                             !.calls = sess[s].calls + 1]]
            /\ UNCHANGED <<entries, entries_seq, now, last, hist>>

\* the delete button of the active table, second call: db.delete_entry
DeleteEntrySecond ==
    \E s \in Sessions :
        /\ sess[s].pc = "deleting"
        /\ entries' = Drop(entries, sess[s].id)
        /\ sess' = [sess EXCEPT ![s].pc = "idle"]
        /\ UNCHANGED <<entries_seq, attachments, attachments_seq, now, last, hist>>

NextAct ==
    \/ SubmitEntry \/ SubmitAttachment \/ SubmitAttachmentFails
    \/ DeleteAttachmentsFirst \/ DeleteEntrySecond

SpecAct == Init /\ [][NextAct]_vars

----------------------------------------------------------------------------
(* the payloads: files of every short content, stored, read back, deleted *)

MaxLen == 3

Bytes == {0, 1, 77, 128, 255}

ByteSeqs == UNION {[1..n -> Bytes] : n \in 0..MaxLen}

\* add_attachment for the stored entry, with a file of any content; one
\* session does the uploads
PayAdd ==
    \E s \in {CHOOSE t \in Sessions : TRUE}, b \in ByteSeqs :
        /\ 1 \in DOMAIN entries
        /\ DOMAIN attachments = {} /\ attachments_seq < MaxAtt
        /\ add_attachment(1, <<"f">>, "application/pdf", b)
        /\ sess' = [sess EXCEPT ![s] =
                      [NoSession EXCEPT
                         !.op = "attach", !.id = 1, !.att = attachments_seq',
                         !.file = [name |-> <<"f">>, type |-> "application/pdf",
                                   size |-> Len(b), data |-> b]]]
        /\ UNCHANGED <<entries, entries_seq, now, last, hist>>

PayDelete ==
    \E attachment_id \in DOMAIN attachments :
        /\ delete_attachment(attachment_id)
        /\ UNCHANGED <<entries, entries_seq, now, last, hist, sess>>

NextPayload == ConcCreate \/ PayAdd \/ PayDelete

SpecPayload == Init /\ [][NextPayload]_vars

----------------------------------------------------------------------------
(* get_stats next to writers: its six SELECTs run one after the other on a  *)
(* connection in autocommit, each on the rows committed when it runs         *)

\* the result of the k-th COUNT(*) query of get_stats
StatsCount(k) ==
    <<get_stats.waiting, get_stats.ready, get_stats.due_today,
      get_stats.due_week, get_stats.completed, get_stats.total>>[k]

\* get_stats is called
StatsBegin ==
    \E s \in {CHOOSE t \in Sessions : TRUE} :
        /\ sess[s].pc = "idle" /\ sess[s].calls < MaxCalls
        /\ sess' = [sess EXCEPT ![s] =
                      [NoSession EXCEPT !.pc = "counting", !.op = "stats",
                                        !.calls = sess[s].calls + 1]]
        /\ UNCHANGED <<entries, entries_seq, attachments, attachments_seq, now,
                       last, hist>>

\* the next query of get_stats; after the sixth the dict is returned
StatsQuery ==
    \E s \in Sessions :
        /\ sess[s].pc = "counting"
        /\ LET k == Len(sess[s].counts) + 1 IN
           sess' = [sess EXCEPT ![s].counts = Append(@, StatsCount(k)),
                                ![s].pc = IF k = 6 THEN "idle" ELSE "counting"]
        /\ UNCHANGED <<entries, entries_seq, attachments, attachments_seq, now,
                       last, hist>>

\* another session submits the form
StatsCreate ==
    SubmitNewEntry(<<"a">>, <<"x">>, <<"c">>, <<2024, 1, 2>>, "UBS", <<>>, NoFile)

NextStats == StatsBegin \/ StatsQuery \/ StatsCreate \/ SetCompleted

SpecStats == Init /\ [][NextStats]_vars

----------------------------------------------------------------------------
(* writers that find the write lock taken: sqlite3.connect(..., timeout=30) *)
(* installs a busy handler that sleeps and retries until the timeout is     *)
(* used up, and then the statement fails with "database is locked"          *)

\* the sleeps of the busy handler that fit into the timeout
MaxWait == 2

\* TimedOut of a connection opened with timeout=0
TimedOutAtOnce(waited) == TRUE

\* the busy handler has used up the timeout
TimedOut(waited) == waited >= MaxWait

\* mark_completed is called and reaches its UPDATE
WantWrite(s) ==
    \E entry_id \in Ids, completed \in BOOLEAN :
        /\ sess[s].pc = "idle"
        /\ sess' = [sess EXCEPT ![s] =
                      [NoSession EXCEPT
                         !.pc = "wanting", !.op = "setCompleted",
                         !.id = entry_id, !.arg = completed,
                         !.pre = PreOf(entry_id)]]
        /\ UNCHANGED <<entries, entries_seq, attachments, attachments_seq, now,
                       last, hist>>

\* the UPDATE gets the write lock and runs
Acquire(s) ==
    /\ sess[s].pc = "wanting" /\ LockFree(s)
    /\ sess' = [sess EXCEPT ![s].pc = "written",
                            ![s].tx = Written(entries, sess[s].op, sess[s].id,
                                              sess[s].arg, sess[s].cur)]
    /\ UNCHANGED <<entries, entries_seq, attachments, attachments_seq, now,
                   last, hist>>

\* the lock is taken: the busy handler sleeps and the UPDATE is tried again
BusySleep(s) ==
    /\ sess[s].pc = "wanting" /\ ~LockFree(s) /\ ~TimedOut(sess[s].waited)
    /\ sess' = [sess EXCEPT ![s].waited = @ + 1]
    /\ UNCHANGED <<entries, entries_seq, attachments, attachments_seq, now,
                   last, hist>>

\* the lock is still taken when the timeout is used up: OperationalError,
\* rollback, the call raises
BusyTimeout(s) ==
    /\ sess[s].pc = "wanting" /\ ~LockFree(s) /\ TimedOut(sess[s].waited)
    /\ sess' = [sess EXCEPT ![s].pc = "idle", ![s].ret = "Busy"]
    /\ UNCHANGED <<entries, entries_seq, attachments, attachments_seq, now,
                   last, hist>>

NextBusy ==
    \/ ConcCreate
    \/ \E s \in Sessions :
         WantWrite(s) \/ Acquire(s) \/ BusySleep(s) \/ BusyTimeout(s)
    \/ Commit

\* a call that is under way goes on: the thread that runs it is scheduled
Running(s) == sess[s].pc # "idle" /\ NextBusy /\ sess'[s] # sess[s]

SpecBusy ==
    Init /\ [][NextBusy]_vars /\ \A s \in Sessions : WF_vars(Running(s))

----------------------------------------------------------------------------
(* the overview of the page: the entries, their dates and their states over *)
(* the days, with the texts of the form held fixed                          *)

OverviewCreate ==
    \E sell_date \in SellDates :
        SubmitNewEntry(<<"a">>, <<"x">>, <<"c">>, sell_date, "UBS", <<>>, NoFile)

NextOverview == OverviewCreate \/ SetCompleted \/ CycleStatus \/ Delete \/ Tick

SpecOverview == Init /\ [][NextOverview]_vars

----------------------------------------------------------------------------
(* the store's calls on one entry next to other entries and to attachments, *)
(* those of the entry itself among them                                     *)

\* add_attachment for an id, stored or not, that has no attachment yet
FrameAttach ==
    \E entry_id \in Ids :
        /\ get_attachments(entry_id) = {}
        /\ add_attachment(entry_id, SmallFile.name, "application/octet-stream",
                          SmallFile.data)
        /\ last' = [op |-> "attach", id |-> entry_id, arg |-> FALSE,
                    pre |-> PreOf(entry_id), ret |-> "None"]
        /\ hist' = <<>>
        /\ UNCHANGED <<entries, entries_seq, now, sess>>

NextFrame ==
    \/ StatsCreate \/ FrameAttach
    \/ Update \/ SetCompleted \/ CycleStatus \/ Delete

SpecFrame == Init /\ [][NextFrame]_vars

----------------------------------------------------------------------------
(* init_database, run by the import of the module in every new session, on  *)
(* a store that other sessions are working on                               *)

\* the columns of CREATE TABLE entries
CreateColumns ==
    {"id", "account", "tickers", "held_in", "broker", "sell_date", "target_date",
     "comments", "completed", "completed_date", "created_at", "updated_at"}

\* ColumnExists of a table that takes the same column a second time
ColumnExistsNever(columns, c) == FALSE

\* ALTER TABLE entries ADD COLUMN c raises "duplicate column name", which
\* init_database swallows
ColumnExists(columns, c) == c \in columns

\* the columns of entries after init_database: CREATE TABLE IF NOT EXISTS,
\* then the two ADD COLUMN
init_columns(columns) ==
    (IF columns = {} THEN CreateColumns ELSE columns) \cup {"broker", "status"}

\* the columns of the store after construction: the first import has run
\* init_database on the new file
TableColumns == init_columns({})

\* a row after the two UPDATE statements that follow ADD COLUMN status; the
\* new column reads 'pending' in every row, so the first one turns the rows
\* with completed = 1 to 'completed' and the second one (status IS NULL)
\* finds no row
Migrated(row) ==
    IF row.completed = 1 /\ row.status = "pending"
    THEN [row EXCEPT !.status = "completed"]
    ELSE row

\* the rows of entries after init_database: the migration runs only when
\* ADD COLUMN status did not raise
init_database_rows(columns, table) ==
    IF ColumnExists(columns, "status")
    THEN table
    ELSE [id \in DOMAIN table |-> Migrated([table[id] EXCEPT !.status = "pending"])]

\* a session imports the module; none of the statements asks for the write
\* lock when the tables, the columns and the indexes are there
init_database ==
    \E s \in Sessions :
        /\ sess[s].pc = "idle" /\ sess[s].calls < MaxCalls
        /\ entries' = init_database_rows(TableColumns, entries)
        /\ sess' = [sess EXCEPT ![s] =
                      [NoSession EXCEPT !.op = "init",
                                        !.calls = sess[s].calls + 1]]
        /\ UNCHANGED <<entries_seq, attachments, attachments_seq, now, last, hist>>

\* the one attachment of the entry the sessions work on
InitAttach ==
    /\ 1 \in DOMAIN entries /\ attachments_seq = 0
    /\ add_attachment(1, SmallFile.name, "application/octet-stream",
                      SmallFile.data)
    /\ UNCHANGED <<entries, entries_seq, now, last, hist, sess>>

NextInit ==
    \/ ConcCreate \/ InitAttach
    \/ CycSelect \/ CycUpdate \/ WriteUpdate \/ Commit \/ CycBusy
    \/ init_database

SpecInit == Init /\ [][NextInit]_vars

----------------------------------------------------------------------------
(* Claims *)

\* C1: in every store state, every stored entry has status 'completed'
\* exactly when completed is 1, and exactly when completed_date is not NULL.
C1_StatusMirror ==
    \A id \in DOMAIN entries :
        /\ (entries[id].status = "completed") <=> (entries[id].completed = 1)
        /\ (entries[id].completed = 1) <=> (entries[id].completed_date # NULL)

\* an entry completed by cycle_status, next to one reopened by mark_completed
C1_Witness ==
    /\ last.op = "cycleStatus" /\ last.pre = "in_progress"
    /\ last.id \in DOMAIN entries
    /\ entries[last.id].completed_date # NULL
    /\ \E id \in DOMAIN entries : id # last.id /\ entries[id].status = "in_progress"

\* C2: the results of consecutive cycleStatus calls on an entry follow
\* pending -> in_progress -> completed -> pending: the third call restores
\* the status stored before the first, a run that starts at pending returns
\* in_progress, completed, pending, and no call leaves the status where it
\* was.
C2_CycleOfThree ==
    (last.op = "cycleStatus" /\ last.id \in DOMAIN entries) =>
        /\ \A i \in 1..(Len(hist) - 1) : hist[i + 1] # hist[i]
        /\ Len(hist) = 4 =>
             hist[4] = hist[1] /\ entries[last.id].status = hist[1]
        /\ hist[1] = "pending" =>
             /\ Len(hist) >= 2 => hist[2] = "in_progress"
             /\ Len(hist) >= 3 => hist[3] = "completed"
             /\ Len(hist) >= 4 => hist[4] = "pending"

\* the third call on an entry just created, another entry being in progress
C2_Witness ==
    /\ last.op = "cycleStatus" /\ last.id = 2 /\ last.ret = "pending"
    /\ hist = <<"pending", "in_progress", "completed", "pending">>
    /\ 2 \in DOMAIN entries /\ entries[2].status = "pending"
    /\ 1 \in DOMAIN entries /\ entries[1].status = "in_progress"

\* C3: after setCompleted(id, true) the entry is completed, with completed 1
\* and a completed_date; after setCompleted(id, false) it is pending, with
\* completed 0 and no completed_date; from whatever status it had.
C3_SetCompletedJumps ==
    (last.op = "setCompleted" /\ last.id \in DOMAIN entries) =>
        LET e == entries[last.id] IN
        IF last.arg
        THEN e.status = "completed" /\ e.completed = 1 /\ e.completed_date # NULL
        ELSE e.status = "pending" /\ e.completed = 0 /\ e.completed_date = NULL

\* setCompleted(id, false) on an entry that was in progress
C3_Witness ==
    /\ last.op = "setCompleted" /\ ~last.arg /\ last.pre = "in_progress"
    /\ last.id \in DOMAIN entries
    /\ entries[last.id].status = "pending"

\* C4: the target date of a sell date d is d+31 when that is a Monday to
\* Friday, d+33 when d+31 is a Saturday, d+32 when d+31 is a Sunday, and so
\* never a Saturday or Sunday.
C4_TargetDateLaw ==
    \A id \in DOMAIN entries :
        LET d == strptime(entries[id].sell_date)
            t == strptime(entries[id].target_date)
        IN  /\ weekday(d + 31) \in 0..4 => t = d + 31
            /\ weekday(d + 31) = 5 => t = d + 33
            /\ weekday(d + 31) = 6 => t = d + 32
            /\ weekday(t) \notin {5, 6}

\* the Sunday case across the leap day: an entry re-dated to 2024-02-01,
\* whose +31 is Sunday 2024-03-03, has the target Monday 2024-03-04
C4_Witness ==
    /\ 1 \in DOMAIN entries
    /\ last.op = "update"
    /\ entries[1].sell_date = <<2024, 2, 1>>
    /\ entries[1].target_date = <<2024, 3, 4>>

\* C5: every stored entry's target_date is the target date of its current
\* sell_date, and only create and update write sell_date or target_date.
C5_TargetFollowsSellDate ==
    /\ [](\A id \in DOMAIN entries :
            entries[id].target_date = computeTargetDate(entries[id].sell_date))
    /\ [][(now' # now \/ last'.op \notin {"create", "update"}) =>
            \A id \in DOMAIN entries \cap DOMAIN entries' :
                /\ entries'[id].sell_date = entries[id].sell_date
                /\ entries'[id].target_date = entries[id].target_date]_vars

\* an update that moved an entry's sell date to one with a Saturday +31
C5_Witness ==
    /\ last.op = "update" /\ last.pre = "completed"
    /\ last.id \in DOMAIN entries
    /\ entries[last.id].sell_date = <<2024, 1, 3>>
    /\ entries[last.id].target_date = <<2024, 2, 5>>

\* C6: the entry a create has just stored is pending, with completed 0 and
\* completed_date NULL, whatever else the store holds.
C6_CreatedPending ==
    (last.op = "create" /\ last.ret # "Rejected") =>
        /\ last.id \in DOMAIN entries
        /\ entries[last.id].status = "pending"
        /\ entries[last.id].completed = 0
        /\ entries[last.id].completed_date = NULL

\* a create into a store that holds a completed entry
C6_Witness ==
    /\ last.op = "create" /\ last.id = 2
    /\ 1 \in DOMAIN entries /\ entries[1].status = "completed"
    /\ 2 \in DOMAIN entries /\ entries[2].status = "pending"

\* C7: a create with a blank account, tickers, held_in or broker is rejected
\* and inserts nothing, so no stored entry has one of them empty.
C7_NoBlankRequired ==
    /\ \A id \in DOMAIN entries :
         /\ entries[id].account # <<>>
         /\ entries[id].tickers # <<>>
         /\ entries[id].held_in # <<>>
         /\ entries[id].broker # ""
    /\ (last.op = "create" /\ last.ret # "Rejected") =>
         (last.id \in DOMAIN entries /\ entries[last.id].account # <<>>)

\* C8: an update of an id that is not in the store fails with NotFoundError.
C8_UpdateMissingFails ==
    (last.op = "update" /\ last.pre = "absent") => last.ret = "NotFoundError"

\* C9: setCompleted, cycleStatus and delete of an id that is not in the store
\* fail with NotFoundError; cycleStatus returns no status for it.
C9_MissingIdFails ==
    (last.op \in {"setCompleted", "cycleStatus", "delete"} /\ last.pre = "absent")
        => last.ret = "NotFoundError"

\* C10: an update leaves status, completed and completed_date of the entry
\* as they were.
C10_UpdateKeepsStatus ==
    [][(last'.op = "update" /\ now' = now) =>
        \A id \in DOMAIN entries \cap DOMAIN entries' :
            /\ entries'[id].status = entries[id].status
            /\ entries'[id].completed = entries[id].completed
            /\ entries'[id].completed_date = entries[id].completed_date]_vars

\* an update of a completed entry that changed its account and sell date
C10_Witness ==
    /\ last.op = "update" /\ last.pre = "completed"
    /\ last.id \in DOMAIN entries
    /\ entries[last.id].status = "completed"
    /\ entries[last.id].completed_date = strftime(FirstToday)
    /\ entries[last.id].account = <<"a">>
    /\ entries[last.id].sell_date = <<2024, 1, 3>>
    /\ now = FirstToday + 1

\* C11: for every today, the 'ready' filter selects exactly the entries that
\* are not completed and whose target day is today or earlier, the 'waiting'
\* filter exactly those not completed whose target day is later than today,
\* and neither selects a completed entry.
C11_ReadyWaitingExact ==
    /\ Selected("ready") =
         {id \in DOMAIN entries : /\ entries[id].status # "completed"
                                  /\ strptime(entries[id].target_date) <= now}
    /\ Selected("waiting") =
         {id \in DOMAIN entries : /\ entries[id].status # "completed"
                                  /\ strptime(entries[id].target_date) > now}
    /\ \A id \in Selected("ready") \cup Selected("waiting") :
         entries[id].status # "completed"

\* on 2024-02-05 an entry in progress falls due that day and is ready, while
\* a completed entry that fell due on 2024-02-02 is in neither list
C11_Witness ==
    /\ now = FirstToday + 1
    /\ \E id \in Selected("ready") :
         /\ entries[id].target_date = strftime(now)
         /\ entries[id].status = "in_progress"
    /\ \E id \in DOMAIN entries :
         /\ entries[id].status = "completed"
         /\ entries[id].target_date = <<2024, 2, 2>>
    /\ Selected("waiting") = {}

\* C12: every list of a filter other than 'completed' comes ordered by
\* target_date ascending and, among equal target dates, by account ascending
\* ('all' read through get_all_entries); the 'completed' list comes ordered
\* by completed_date descending.
C12_ListsOrdered ==
    LET InOrder(q) ==
            \A i, j \in DOMAIN q : i < j =>
                LET a == entries[q[i]]
                    b == entries[q[j]]
                IN  /\ strptime(a.target_date) <= strptime(b.target_date)
                    /\ a.target_date = b.target_date
                         => ~TextLess(b.account, a.account)
        NewestFirst(q) ==
            \A i, j \in DOMAIN q : i < j =>
                strptime(entries[q[i]].completed_date)
                    >= strptime(entries[q[j]].completed_date)
    IN  /\ \A q \in get_all_entries : InOrder(q)
        /\ \A status \in {"waiting", "ready", "pending", "in_progress"} :
             \A q \in get_entries_by_status(status) : InOrder(q)
        /\ \A q \in get_entries_by_status("completed") : NewestFirst(q)

\* C13: whatever calls of the sessions are under way, no list read hands back
\* an entry whose completed flag or completed_date disagrees with its status.
C13_NoPartialRead ==
    \A status \in {"all", "ready", "waiting", "completed"} :
        \A q \in get_entries_by_status(status) :
            \A i \in DOMAIN q :
                LET e == entries[q[i]] IN
                /\ (e.status = "completed") = (e.completed = 1)
                /\ (e.status = "completed") = (e.completed_date # NULL)

\* one session has written 'completed' and not committed, the other has
\* read the status for its own cycle_status; the lists still show the entry
\* in progress
C13_Witness ==
    /\ 1 \in DOMAIN entries /\ entries[1].status = "in_progress"
    /\ sess[1].pc = "written" /\ sess[1].op = "cycleStatus" /\ sess[1].id = 1
    /\ sess[1].tx[1].status = "completed"
    /\ sess[2].pc = "selected" /\ sess[2].id = 1
    /\ \E q \in get_entries_by_status("ready") : q = <<1>>

\* C14: when each of two sessions has run one cycle_status or setCompleted
\* call on the same stored entry, created pending, the stored status and the
\* two returned values are those of one of the two sequential orders of the
\* calls; two cycle_status calls leave the entry completed.
C14_WritersSerialize ==
    LET a == sess[1]
        b == sess[2]
        StatusAfter(c, st) == IF c.op = "cycleStatus" THEN NextStatus(st)
                              ELSE IF c.arg THEN "completed" ELSE "pending"
        Returned(c, st) == IF c.op = "cycleStatus" THEN NextStatus(st) ELSE "None"
        Serial(x, y) ==
            <<StatusAfter(y, StatusAfter(x, "pending")),
              Returned(x, "pending"),
              Returned(y, StatusAfter(x, "pending"))>>
    IN  ( /\ a.pc = "idle" /\ b.pc = "idle"
          /\ a.calls = 1 /\ b.calls = 1
          /\ a.op \in {"cycleStatus", "setCompleted"}
          /\ b.op \in {"cycleStatus", "setCompleted"}
          /\ a.id = b.id /\ a.pre # "absent" /\ b.pre # "absent"
          /\ a.ret # "Busy" /\ b.ret # "Busy" )
        => \/ <<entries[a.id].status, a.ret, b.ret>> = Serial(a, b)
           \/ <<entries[a.id].status, b.ret, a.ret>> = Serial(b, a)

\* C15: a mutating call either succeeds, and then the data-model invariants
\* hold (target date law, status mirror, every attachment made by the call
\* belongs to a stored entry), or fails with an error, and then the store is
\* as it was before the call.
C15_AllOrNothing ==
    [][IF last'.ret = "Error"
       THEN UNCHANGED <<entries, entries_seq, attachments, attachments_seq>>
       ELSE /\ \A id \in DOMAIN entries' :
                 LET e == entries'[id] IN
                 /\ e.target_date = computeTargetDate(e.sell_date)
                 /\ (e.status = "completed") = (e.completed = 1)
                 /\ (e.status = "completed") = (e.completed_date # NULL)
            /\ \A a \in DOMAIN attachments' \ DOMAIN attachments :
                 attachments'[a].entry_id \in DOMAIN entries']_vars

\* C16: whenever an attachment is created, its entry_id is the id of an entry
\* stored at that moment.
C16_NoOrphanCreated ==
    [][\A a \in DOMAIN attachments' \ DOMAIN attachments :
        attachments'[a].entry_id \in DOMAIN entries']_vars

\* C17: when one of the page's delete buttons removes an entry, no attachment
\* with that entry's id is left in the store.
C17_DeleteTakesAttachments ==
    [][\A id \in DOMAIN entries \ DOMAIN entries' :
        last'.op \in {"deleteReady", "deleteActive", "deleteCompleted"}
            => \A a \in DOMAIN attachments' : attachments'[a].entry_id # id]_vars

\* C18: delete_attachments_for_entry(id) followed by delete_entry(id) leaves
\* get_attachments(id) empty and the entry out of the unfiltered list, and
\* keeps every other entry and every attachment of another entry.
C18_DeleteBothKeepsOthers ==
    [][\A id \in DOMAIN entries \ DOMAIN entries' :
        last'.op \in {"deleteReady", "deleteActive"}
            => /\ get_attachments(id)' = {}
               /\ \A q \in get_entries_by_status("all")' :
                    \A i \in DOMAIN q : q[i] # id
               /\ \A other \in DOMAIN entries \ {id} :
                    /\ other \in DOMAIN entries'
                    /\ entries'[other] = entries[other]
                    /\ get_attachments(other)' = get_attachments(other)
               /\ \A a \in DOMAIN attachments :
                    attachments[a].entry_id # id
                        => /\ a \in DOMAIN attachments'
                           /\ attachments'[a] = attachments[a]]_vars

\* entry 1 and its two attachments are gone; entry 2 and its attachment stay
C18_Witness ==
    /\ last.op = "deleteActive" /\ last.id = 1
    /\ DOMAIN entries = {2}
    /\ DOMAIN attachments = {2}
    /\ attachments[2].entry_id = 2
    /\ attachments_seq = 3
    /\ get_attachments(1) = {}

\* C19: an operation that leaves an entry's status at completed leaves its
\* completed_date as it was.
C19_DateOnlyOnTransition ==
    [][\A id \in DOMAIN entries \cap DOMAIN entries' :
        (entries[id].status = "completed" /\ entries'[id].status = "completed")
            => entries'[id].completed_date = entries[id].completed_date]_vars

\* C20: creating an entry whose target date is after today raises the waiting
\* count of get_stats by one and leaves the completed count; setCompleted(id,
\* true) on such an entry raises the completed count by one and lowers the
\* waiting count by one.
C20_StatsFollowLifecycle ==
    [][/\ ( /\ last'.op = "create" /\ entries_seq' = entries_seq + 1
            /\ DateLess(strftime(now), entries'[entries_seq'].target_date) )
          => /\ get_stats'.waiting = get_stats.waiting + 1
             /\ get_stats'.completed = get_stats.completed
       /\ \A id \in DOMAIN entries :
            ( /\ last'.op = "setCompleted" /\ last'.arg /\ last'.id = id
              /\ now' = now
              /\ entries[id].completed = 0
              /\ DateLess(strftime(now), entries[id].target_date) )
            => /\ get_stats'.completed = get_stats.completed + 1
               /\ get_stats'.waiting = get_stats.waiting - 1]_vars

\* setCompleted(2, true) right after entry 2 was created with a target date
\* after today, into a store that holds another waiting entry
C20_Witness ==
    /\ last.op = "setCompleted" /\ last.arg /\ last.id = 2 /\ last.pre = "pending"
    /\ now = FirstToday
    /\ 2 \in DOMAIN entries /\ entries[2].target_date = <<2024, 2, 5>>
    /\ get_stats.completed = 1 /\ get_stats.waiting = 1 /\ get_stats.total = 2

\* C21: no state that another session can read lies between the store calls
\* of one action: once a delete action has removed the attachments of an
\* entry the entry is gone too, and an entry submitted with an accepted
\* attachment is never stored without it.
C21_ActionIsOneTransaction ==
    \A s \in Sessions :
        /\ sess[s].pc = "deleting" => sess[s].id \notin DOMAIN entries
        /\ sess[s].pc = "attaching" =>
             \E a \in DOMAIN attachments : attachments[a].entry_id = sess[s].id

\* C22: the value cycle_status(id) returns is the status a read of id gives
\* right after the call.
C22_ReturnIsStored ==
    [][\A id \in Ids :
        (last'.op = "cycleStatus" /\ last'.id = id /\ now' = now)
            => last'.ret = get_entry_status(id)']_vars

\* C23: an entry displays COMPLETED when its stored status is completed,
\* otherwise READY when its target day is today or earlier, otherwise WAITING;
\* it displays READY exactly when the 'ready' list holds it and WAITING
\* exactly when the 'waiting' list holds it.
C23_DisplayStatus ==
    \A id \in DOMAIN entries :
        /\ DisplayStatus(id) =
             IF entries[id].status = "completed" THEN "COMPLETED"
             ELSE IF strptime(entries[id].target_date) <= now THEN "READY"
             ELSE "WAITING"
        /\ (DisplayStatus(id) = "READY") <=> (id \in Selected("ready"))
        /\ (DisplayStatus(id) = "WAITING") <=> (id \in Selected("waiting"))

\* on 2024-02-05 an entry in progress falls due that very day and displays
\* READY, next to a completed one
C23_Witness ==
    /\ now = FirstToday + 1
    /\ \E id \in DOMAIN entries :
         /\ entries[id].target_date = strftime(now)
         /\ entries[id].status = "in_progress"
         /\ DisplayStatus(id) = "READY"
    /\ \E id \in DOMAIN entries : DisplayStatus(id) = "COMPLETED"

\* C24: a submission creates and keeps its entry whatever its upload; an
\* upload of more than 5 MiB stores no attachment for the entry, an upload of
\* at most 5 MiB is stored with it, and an add_attachment that fails leaves
\* the entry and the attachments as they were.
C24_OversizeKeepsEntry ==
    /\ [](\A s \in Sessions :
            /\ (sess[s].op = "submit" /\ sess[s].file.size > MaxUploadBytes)
                 => /\ sess[s].pc = "idle" /\ sess[s].att = 0
                    /\ \A a \in DOMAIN attachments :
                         attachments[a].entry_id # sess[s].id
            /\ (sess[s].op = "submit" /\ sess[s].file # NoFile
                  /\ sess[s].file.size <= MaxUploadBytes /\ sess[s].ret # "Error")
                 => \/ sess[s].pc = "attaching"
                    \/ sess[s].att > 0)
    /\ [][\A s \in Sessions :
            /\ (sess'[s].op = "submit" /\ sess'[s].calls = sess[s].calls + 1)
                 => sess'[s].id \in DOMAIN entries' \ DOMAIN entries
            /\ (sess[s].pc = "attaching" /\ sess'[s].pc = "idle")
                 => /\ entries' = entries
                    /\ IF sess'[s].ret = "Error"
                       THEN attachments' = attachments
                       ELSE /\ sess'[s].att \in DOMAIN attachments' \ DOMAIN attachments
                            /\ attachments'[sess'[s].att].entry_id = sess[s].id
                            /\ attachments'[sess'[s].att].filename = sess[s].file.name]_vars

\* session 1 submitted a file of 5 MiB + 1 byte: entry 1 is stored without an
\* attachment; session 2 submitted a file of exactly 5 MiB: entry 2 and its
\* attachment are stored
C24_Witness ==
    /\ sess[1].op = "submit" /\ sess[1].file = BigFile /\ sess[1].id = 1
    /\ sess[2].op = "submit" /\ sess[2].file = LimitFile /\ sess[2].id = 2
    /\ sess[1].pc = "idle" /\ sess[2].pc = "idle"
    /\ DOMAIN entries = {1, 2}
    /\ DOMAIN attachments = {1} /\ attachments[1].entry_id = 2

\* C25: every create returns an id greater than every id a create returned
\* before (none exceeds the sequence counter), also after deletes, and the
\* new id is the only change to the set of stored ids.
C25_IdsNeverReused ==
    /\ [](\A id \in DOMAIN entries : id <= entries_seq)
    /\ [][(last'.op = "create" /\ DOMAIN entries' # DOMAIN entries)
            => /\ last'.id > entries_seq
               /\ entries_seq' = last'.id
               /\ DOMAIN entries' = DOMAIN entries \cup {last'.id}
               /\ \A id \in DOMAIN entries : entries'[id] = entries[id]]_vars

\* entry 2 was created after entry 1, then the entry with the highest id, and
\* entry 1 was deleted before the create
C25_Witness ==
    /\ last.op = "create" /\ last.id = 2
    /\ DOMAIN entries = {2}
    /\ entries_seq = 2

\* C26: get_attachment_data of the id add_attachment returned gives back the
\* filename, the type and exactly the bytes that were added, for as long as
\* the attachment is stored; for an id that is not stored (deleted, or never
\* given out) it gives (None, None, None).
C26_PayloadRoundTrip ==
    /\ \A s \in Sessions :
         (sess[s].op = "attach" /\ sess[s].att \in DOMAIN attachments)
            => LET r == get_attachment_data(sess[s].att) IN
               /\ r[1] = sess[s].file.name
               /\ r[2] = sess[s].file.type
               /\ r[3] = sess[s].file.data
    /\ \A a \in (1..(MaxAtt + 1)) \ DOMAIN attachments :
         get_attachment_data(a) = <<NULL, NULL, NULL>>

\* attachment 1 was deleted; attachment 2 holds the three bytes 00 FF 4D
C26_Witness ==
    /\ \E s \in Sessions :
         /\ sess[s].op = "attach" /\ sess[s].att = 2
         /\ sess[s].file.data = <<0, 255, 77>>
    /\ DOMAIN attachments = {2}
    /\ get_attachment_data(2)[3] = <<0, 255, 77>>
    /\ get_attachment_data(1) = <<NULL, NULL, NULL>>

\* C27: get_all_account_counts has a key for the uppercase form of every
\* stored account; every key is uppercase and maps to the number of entries
\* whose account equals it but for letter case, which is never 0; the counts
\* add up to the number of entries.
C27_AccountCounts ==
    LET m == get_all_account_counts
        Fold(c) == IF c = "A" THEN "a" ELSE IF c = "B" THEN "b" ELSE c
        SameButCase(x, y) ==
            Len(x) = Len(y) /\ \A i \in DOMAIN x : Fold(x[i]) = Fold(y[i])
        Total[K \in SUBSET DOMAIN m] ==
            IF K = {} THEN 0
            ELSE LET k == CHOOSE k \in K : TRUE IN m[k] + Total[K \ {k}]
    IN  /\ \A id \in DOMAIN entries :
             \E k \in DOMAIN m : SameButCase(entries[id].account, k)
        /\ \A k \in DOMAIN m :
             /\ \A i \in DOMAIN k : k[i] \in {"A", "B"}
             /\ m[k] > 0
             /\ m[k] = Cardinality({id \in DOMAIN entries :
                                      SameButCase(entries[id].account, k)})
        /\ Total[DOMAIN m] = Cardinality(DOMAIN entries)

\* accounts 'a' and 'A' are counted under the one key 'A'
C27_Witness ==
    /\ {entries[id].account : id \in DOMAIN entries} = {<<"a">>, <<"A">>}
    /\ get_all_account_counts = (<<"A">> :> 2)

\* C28: a call that finds the write lock taken fails with Busy only after
\* its busy handler has used up the timeout, and then it has written
\* nothing; every call that is under way ends, whatever the other session
\* does, having committed or having failed with Busy.
C28_BusyWaitsAndFinishes ==
    /\ \A s \in Sessions : (sess[s].pc # "idle") ~> (sess[s].pc = "idle")
    /\ [](\A s \in Sessions :
            sess[s].pc = "idle" => sess[s].ret \in {"None", "Busy"})
    /\ [][\A s \in Sessions :
            (sess[s].pc # "idle" /\ sess'[s].pc = "idle" /\ sess'[s].ret = "Busy")
                => /\ sess[s].waited >= MaxWait
                   /\ entries' = entries]_vars

\* a session has given up with Busy after its last sleep, while the other
\* one still holds the write lock
C28_Witness ==
    \E s, t \in Sessions :
        /\ sess[s].pc = "idle" /\ sess[s].ret = "Busy"
        /\ sess[s].waited = MaxWait
        /\ sess[t].pc = "written" /\ sess[t].id = 1
        /\ 1 \in DOMAIN entries

\* C29: every dict get_stats returns satisfies waiting + ready + completed =
\* total, due_today <= due_week and due_today <= ready, also when other
\* sessions write while it runs.
C29_StatsConsistent ==
    \A s \in Sessions :
        (sess[s].op = "stats" /\ sess[s].pc = "idle")
            => LET c == sess[s].counts IN
               /\ c[1] + c[2] + c[5] = c[6]
               /\ c[3] <= c[4]
               /\ c[3] <= c[2]

\* C30: the counts of get_stats, taken from the completed flag, agree with the
\* lengths of the lists, taken from the status column.
C30_StatsAgreeWithLists ==
    /\ \A q \in get_entries_by_status("waiting") : Len(q) = get_stats.waiting
    /\ \A q \in get_entries_by_status("ready") : Len(q) = get_stats.ready
    /\ \A q \in get_entries_by_status("completed") : Len(q) = get_stats.completed
    /\ \A q \in get_entries_by_status("all") : Len(q) = get_stats.total

\* one entry in each of two lists: a completed one and a waiting one
C30_Witness ==
    /\ get_stats.completed = 1 /\ get_stats.waiting = 1 /\ get_stats.ready = 0
    /\ \E q \in get_entries_by_status("completed") : Len(q) = 1
    /\ \E id \in DOMAIN entries : entries[id].status = "in_progress"

C32_InitIdempotent ==
    [][\A s \in Sessions :
         (sess'[s].op = "init" /\ sess'[s].calls = sess[s].calls + 1)
            => /\ entries' = entries
               /\ attachments' = attachments
               /\ entries_seq' = entries_seq
               /\ attachments_seq' = attachments_seq
               /\ \A t \in Sessions \ {s} : sess'[t] = sess[t]]_vars

\* a session has run init_database for the second time while the other one
\* holds an uncommitted write on entry 1, which is stored in_progress and
\* has an attachment
C32_Witness ==
    \E s, t \in Sessions :
        /\ s # t
        /\ sess[s].op = "init" /\ sess[s].calls = 2
        /\ sess[t].pc = "written" /\ sess[t].id = 1
        /\ 1 \in DOMAIN entries /\ entries[1].status = "in_progress"
        /\ \E a \in DOMAIN attachments : attachments[a].entry_id = 1

====
